---- MODULE Spec2Model ----
(***************************************************************************)
(* The adaptive reminder engine: services/reminderScheduler.js (the tick:  *)
(* three generators, dispatcher, retention sweep, interaction recording),  *)
(* services/predictionEngine.js (suggestSchedule, dedupeExistingReminder,  *)
(* analytics smoothing) and the reminder routes (record interaction,       *)
(* acknowledge, push subscriptions).                                       *)
(*                                                                         *)
(* Time is counted in minutes since 2025-03-09T00:00Z (a Sunday).  The     *)
(* server image (node:22-alpine) sets no time zone, so the local hours     *)
(* read by setHours/getHours are UTC hours.  Every `new Date()` of one     *)
(* tick reads the same minute.                                             *)
(***************************************************************************)
EXTENDS Integers, Sequences, FiniteSets, TLC

VARIABLES
    now,            \* the wall clock, in minutes
    ticks,          \* number of cron firings so far
    phase,          \* position of runReminderScheduler
    reminders,      \* the Reminder collection, in insertion order; _id = index
    analytics,      \* the ReminderAnalytics collection, one row per tenant
    subscriptions,  \* the PushSubscription collection
    batch,          \* dispatchDueReminders: the `reminders` it read last
    pushLog,        \* webPush.sendNotification calls of the last dispatch
    requests,       \* number of client requests served so far
    pc,             \* concurrent instances: position inside the deadline generator
    pending,        \* concurrent instances: the Reminder built but not yet saved
    call,           \* last call of suggestSchedule: its inputs and its result
    response,       \* the last request on a reminder in this idle period, and its HTTP status
    series,         \* a run of interactions at one hour of day: hour, count, previous value
    env,            \* the environment variables the process was started with
    preferenceRows  \* the ReminderPreference collection: per tenant, whether a row exists and its smartRemindersEnabled

vars == <<now, ticks, phase, reminders, analytics, subscriptions, batch,
          pushLog, requests, pc, pending, call, response, series, env,
          preferenceRows>>

---------------------------------------------------------------------------
(* Bounds of the model *)

MaxTicks == 3
MaxRequests == 2
MaxSeries == 10
DISPATCH_BATCH_SIZE == 1

---------------------------------------------------------------------------
(* Program constants *)

DEFAULT_PREFERRED_HOUR == 18
SMOOTHING_PERCENT == 35
DEFAULT_INACTIVITY_THRESHOLD_HOURS == 72
DEADLINE_LOOKAHEAD_HOURS == 48
DISPATCH_WINDOW_MINUTES == 5
RETENTION_HOURS == 24
DEFAULT_LEAD_MINUTES == 180
DEFAULT_COMPLETION_LEAD_HOURS == 6
MIN_CLAMP_MINUTES == 30

DayMinutes == 24 * 60
NoDate == 0 - 1

Max(a, b) == IF a >= b THEN a ELSE b
Abs(a) == IF a < 0 THEN 0 - a ELSE a
MinOf(S) == CHOOSE x \in S : \A y \in S : x <= y

---------------------------------------------------------------------------
(* Date arithmetic (date-fns and Date.prototype), on minutes *)

addMinutes(t, m) == t + m
getHours(t) == (t % DayMinutes) \div 60
setHours(t, h) == (t \div DayMinutes) * DayMinutes + h * 60
getDay(t) == (t \div DayMinutes) % 7
isoDay(t) == t \div DayMinutes
\* differenceInHours truncates toward zero
differenceInHours(a, b) == IF a >= b THEN (a - b) \div 60 ELSE 0 - ((b - a) \div 60)

---------------------------------------------------------------------------
(* predictionEngine.js *)

\* clampHour on a value given in hundredths of an hour; Math.round rounds
\* halves up
clampHour(h100) ==
    IF h100 < 0 THEN 0
    ELSE IF h100 > 23 * 100 THEN 23
    ELSE (h100 + 50) \div 100

NoAnalytics ==
    [exists |-> FALSE, preferredHourOfDay |-> DEFAULT_PREFERRED_HOUR,
     preferredDayOfWeek |-> 1,
     leadNum |-> DEFAULT_COMPLETION_LEAD_HOURS, leadDen |-> 1,
     sampleSize |-> 0, lastComputedAt |-> NoDate]

calculatePreferredHour(an, supabaseId) ==
    IF ~an[supabaseId].exists THEN DEFAULT_PREFERRED_HOUR
    ELSE clampHour(an[supabaseId].preferredHourOfDay * 100)

isQuiet(quietHours, hour) ==
    IF quietHours.startHour < quietHours.endHour
    THEN hour >= quietHours.startHour /\ hour < quietHours.endHour
    ELSE hour >= quietHours.startHour \/ hour < quietHours.endHour

quietShift(quietHours, candidateDate) ==
    IF quietHours.startHour # quietHours.endHour
       /\ isQuiet(quietHours, getHours(candidateDate))
    THEN setHours(candidateDate, (quietHours.endHour + 1) % 24)
    ELSE candidateDate

\* Mutant of pastClamp: the clamp is lost.
pastClampNever(candidateDate, leadMinutes, n) == candidateDate

pastClamp(candidateDate, leadMinutes, n) ==
    IF candidateDate < n
    THEN addMinutes(n, Max(MIN_CLAMP_MINUTES, leadMinutes \div 2))
    ELSE candidateDate

\* suggestSchedule with calculatePreferredHour's result and `new Date()` passed in
suggestSchedule(preferredHour, dueDate, preference, fallbackMinutes, n) ==
    LET quietHours == preference.quietHours
        leadMinutes == IF preference.defaultLeadMinutes # NoDate
                       THEN preference.defaultLeadMinutes ELSE fallbackMinutes
        anchor == IF dueDate # NoDate THEN dueDate ELSE addMinutes(n, leadMinutes)
        placed == setHours(addMinutes(anchor, 0 - leadMinutes), preferredHour)
    IN  pastClamp(quietShift(quietHours, placed), leadMinutes, n)

computeInactivitySchedule(preferredHour, lastLoginAt, preference, n) ==
    LET threshold == preference.inactivityThresholdHours
        base == IF lastLoginAt # NoDate
                THEN addMinutes(lastLoginAt, threshold * 60)
                ELSE addMinutes(n, threshold * 60)
    IN  setHours(base, preferredHour)

---------------------------------------------------------------------------
(* Collaborator data: tenants, assignments, users, preferences *)

Tenants == {"u1", "u2"}
Endpoints == {"e1", "e2"}
\* the registrations clients ask for: u1 has two devices, and the second
\* one is at times signed in as u2
SubscriptionRequests == {<<"u1", "e1">>, <<"u1", "e2">>, <<"u2", "e2">>}

\* Assignment documents, in natural order.  a1 is the assignment of the
\* spec's scenario, due 2025-03-10T09:00Z; a3 is complete; a4 is due an
\* hour after a1; a2, of u2, is due 2025-03-11T12:00Z.
Assignments ==
    << [id |-> "a1", supabaseId |-> "u1", dueDate |-> DayMinutes + 9 * 60, progress |-> 50],
       [id |-> "a3", supabaseId |-> "u1", dueDate |-> DayMinutes + 11 * 60, progress |-> 100],
       [id |-> "a4", supabaseId |-> "u1", dueDate |-> DayMinutes + 10 * 60, progress |-> 0],
       [id |-> "a2", supabaseId |-> "u2", dueDate |-> 2 * DayMinutes + 12 * 60, progress |-> 0] >>

\* User documents, in natural order.  models/user.js declares supabaseId,
\* name and email only, so `user.lastLoginAt` reads undefined on every
\* document, and no document has smartRemindersOptIn false.
Users ==
    << [supabaseId |-> "u1", lastLoginAt |-> NoDate, smartRemindersOptIn |-> TRUE],
       [supabaseId |-> "u2", lastLoginAt |-> NoDate, smartRemindersOptIn |-> TRUE] >>

\* ReminderPreference documents (models/reminderPreference.js defaults);
\* u1 keeps the night quiet, from 19:00 to 07:00; u2 switched smart
\* reminders off.
Preference(enabled, startHour, endHour) ==
    [smartRemindersEnabled |-> enabled,
     defaultLeadMinutes |-> DEFAULT_LEAD_MINUTES,
     inactivityThresholdHours |-> DEFAULT_INACTIVITY_THRESHOLD_HOURS,
     quietHours |-> [startHour |-> startHour, endHour |-> endHour]]

ReminderPreferences ==
    [t \in Tenants |-> IF t = "u1" THEN Preference(TRUE, 19, 7) ELSE Preference(FALSE, 0, 0)]

\* the rows of the collection at start: a row for each tenant
InitialPreferenceRows ==
    [t \in Tenants |->
        [exists |-> TRUE, smartRemindersEnabled |-> ReminderPreferences[t].smartRemindersEnabled]]

\* Mutant of fetchPreferencesMap: every row is in the map.
fetchPreferencesMapAllRows == {t \in Tenants : preferenceRows[t].exists}

\* fetchPreferencesMap: only the rows with smartRemindersEnabled are in the map
fetchPreferencesMap ==
    {t \in Tenants : preferenceRows[t].exists /\ preferenceRows[t].smartRemindersEnabled}

---------------------------------------------------------------------------
(* The Reminder collection *)

LiveStatuses == {"scheduled", "queued", "sent", "snoozed"}
TerminalStatuses == {"dismissed", "completed"}

ForeignId(key, day) == [key |-> key, day |-> day]

\* new Reminder({...}) with the schema defaults of the Reminder model
NewReminder(supabaseId, type, foreignId, scheduledFor) ==
    [supabaseId |-> supabaseId, type |-> type, foreignId |-> foreignId,
     scheduledFor |-> scheduledFor, status |-> "scheduled",
     sentAt |-> NoDate, deliveredAt |-> NoDate, snoozedUntil |-> NoDate,
     completionLoggedAt |-> NoDate, interactions |-> << >>]

Interaction(action, actedAt, snoozedUntil) ==
    [action |-> action, actedAt |-> actedAt, snoozedUntil |-> snoozedUntil]

\* the filter of dedupeExistingReminder's findOne
dedupeMatches(r, supabaseId, type, foreignId) ==
    /\ r.supabaseId = supabaseId
    /\ r.type = type
    /\ r.foreignId = foreignId
    /\ r.status \in LiveStatuses

\* Mutant of dedupeExistingReminder: the reminder found is also put back to
\* status scheduled.
dedupeExistingReminderResetsStatus(rs, supabaseId, type, foreignId, scheduledFor) ==
    LET found == {i \in DOMAIN rs : dedupeMatches(rs[i], supabaseId, type, foreignId)}
    IN  IF found # {}
        THEN [existing |-> MinOf(found),
              store |-> [rs EXCEPT ![MinOf(found)].scheduledFor = scheduledFor,
                                   ![MinOf(found)].status = "scheduled"]]
        ELSE [existing |-> 0, store |-> rs]

\* dedupeExistingReminder: the first match in natural order is rescheduled in
\* place; `existing` is its _id, 0 for null
dedupeExistingReminder(rs, supabaseId, type, foreignId, scheduledFor) ==
    LET found == {i \in DOMAIN rs : dedupeMatches(rs[i], supabaseId, type, foreignId)}
    IN  IF found # {}
        THEN [existing |-> MinOf(found),
              store |-> [rs EXCEPT ![MinOf(found)].scheduledFor = scheduledFor]]
        ELSE [existing |-> 0, store |-> rs]

\* the tail of each generator's loop body: dedupe, then `new Reminder(..).save()`
upsertReminder(rs, supabaseId, type, foreignId, scheduledFor) ==
    LET d == dedupeExistingReminder(rs, supabaseId, type, foreignId, scheduledFor)
    IN  IF d.existing # 0 THEN d.store
        ELSE Append(rs, NewReminder(supabaseId, type, foreignId, scheduledFor))

---------------------------------------------------------------------------
(* reminderScheduler.js: the three generators *)

\* find(..).limit(k) on a collection kept in natural order
Limit(docs, k) == IF Len(docs) <= k THEN docs ELSE SubSeq(docs, 1, k)

deadlineQuery(assignment, n) ==
    /\ assignment.dueDate >= n
    /\ assignment.dueDate <= n + DEADLINE_LOOKAHEAD_HOURS * 60
    /\ assignment.progress < 100

RECURSIVE deadlineLoop(_, _, _, _)
deadlineLoop(rs, items, an, n) ==
    IF items = << >> THEN rs
    ELSE LET assignment == Head(items)
             supabaseId == assignment.supabaseId
         IN  IF supabaseId \notin fetchPreferencesMap
             THEN deadlineLoop(rs, Tail(items), an, n)
             ELSE deadlineLoop(
                    upsertReminder(rs, supabaseId, "DEADLINE",
                        ForeignId(assignment.id, NoDate),
                        suggestSchedule(calculatePreferredHour(an, supabaseId),
                            assignment.dueDate, ReminderPreferences[supabaseId],
                            DEFAULT_LEAD_MINUTES, n)),
                    Tail(items), an, n)

\* the `assignments` the deadline generator loops over
deadlineItems(n) ==
    Limit(SelectSeq(Assignments, LAMBDA a : deadlineQuery(a, n)), DISPATCH_BATCH_SIZE * 2)

scheduleDeadlineReminders(rs, an, n) ==
    deadlineLoop(rs, deadlineItems(n), an, n)

RECURSIVE inactivityLoop(_, _, _, _)
inactivityLoop(rs, items, an, n) ==
    IF items = << >> THEN rs
    ELSE LET user == Head(items)
             targetDate == computeInactivitySchedule(
                 calculatePreferredHour(an, user.supabaseId), user.lastLoginAt,
                 ReminderPreferences[user.supabaseId], n)
         IN  IF user.supabaseId \notin fetchPreferencesMap \/ targetDate < n
             THEN inactivityLoop(rs, Tail(items), an, n)
             ELSE inactivityLoop(
                    upsertReminder(rs, user.supabaseId, "INACTIVITY",
                        ForeignId(user.supabaseId, NoDate), targetDate),
                    Tail(items), an, n)

\* the `users` the inactivity generator loops over
inactivityItems ==
    Limit(SelectSeq(Users, LAMBDA u : u.smartRemindersOptIn), DISPATCH_BATCH_SIZE * 2)

scheduleInactivityReminders(rs, an, n) ==
    inactivityLoop(rs, inactivityItems, an, n)

\* averageCompletionLeadHours * 60, the fallbackMinutes of the behavioural generator
fallbackOf(row) == (row.leadNum * 60) \div row.leadDen

RECURSIVE behaviouralLoop(_, _, _, _)
behaviouralLoop(rs, items, an, n) ==
    IF items = << >> THEN rs
    ELSE LET supabaseId == Head(items)
             candidate == suggestSchedule(calculatePreferredHour(an, supabaseId),
                 NoDate, ReminderPreferences[supabaseId], fallbackOf(an[supabaseId]), n)
         IN  IF supabaseId \notin fetchPreferencesMap
             THEN behaviouralLoop(rs, Tail(items), an, n)
             ELSE behaviouralLoop(
                    upsertReminder(rs, supabaseId, "BEHAVIORAL",
                        ForeignId("behaviour", isoDay(candidate)), candidate),
                    Tail(items), an, n)

\* the analytics rows, in natural order (u1's row before u2's)
analyticsRows(an) ==
    SelectSeq(<<"u1", "u2">>, LAMBDA t : an[t].exists)

\* the `analytics` rows the behavioural generator loops over
behaviouralItems(an) == Limit(analyticsRows(an), DISPATCH_BATCH_SIZE)

scheduleBehaviouralReminders(rs, an, n) ==
    behaviouralLoop(rs, behaviouralItems(an), an, n)

\* A store operation of the loop body (Reminder.findOne, existing.save(),
\* reminder.save()) throws for the k-th item of a generator: no loop has a
\* try/catch, so the items before it are done, and the rejection leaves the
\* generator and runReminderScheduler.  reachesStore tells whether the item
\* gets as far as a store operation.
Generators == {"deadline", "inactivity", "behavioural"}

generatorItems(gen, an, n) ==
    IF gen = "deadline" THEN deadlineItems(n)
    ELSE IF gen = "inactivity" THEN inactivityItems
    ELSE behaviouralItems(an)

reachesStore(gen, item, an, n) ==
    IF gen = "deadline" THEN item.supabaseId \in fetchPreferencesMap
    ELSE IF gen = "inactivity"
    THEN /\ item.supabaseId \in fetchPreferencesMap
         /\ computeInactivitySchedule(calculatePreferredHour(an, item.supabaseId),
                item.lastLoginAt, ReminderPreferences[item.supabaseId], n) >= n
    ELSE item \in fetchPreferencesMap

generatorsUntilFailure(rs, gen, k, an, n) ==
    IF gen = "deadline"
    THEN deadlineLoop(rs, SubSeq(deadlineItems(n), 1, k - 1), an, n)
    ELSE IF gen = "inactivity"
    THEN inactivityLoop(scheduleDeadlineReminders(rs, an, n),
             SubSeq(inactivityItems, 1, k - 1), an, n)
    ELSE behaviouralLoop(
             scheduleInactivityReminders(scheduleDeadlineReminders(rs, an, n), an, n),
             SubSeq(behaviouralItems(an), 1, k - 1), an, n)

---------------------------------------------------------------------------
(* reminderScheduler.js: dispatcher and retention sweep *)

\* Mutant of DispatchStatuses: the dispatcher selects every live status.
DispatchStatusesWithSent == {"scheduled", "queued", "sent", "snoozed"}

DispatchStatuses == {"scheduled", "queued", "snoozed"}

\* Mutant of dispatchQuery: the status filter is lost.
dispatchQueryAnyStatus(r, n) ==
    r.scheduledFor >= n - DISPATCH_WINDOW_MINUTES /\ r.scheduledFor <= n

\* the filter of dispatchDueReminders' find
dispatchQuery(r, n) ==
    /\ r.scheduledFor >= n - DISPATCH_WINDOW_MINUTES
    /\ r.scheduledFor <= n
    /\ r.status \in DispatchStatuses

\* the results find(..).limit(k) may return: no sort is given, so any k matches
Limited(S, k) ==
    IF Cardinality(S) <= k THEN {S} ELSE {T \in SUBSET S : Cardinality(T) = k}

subscriptionsOf(subs, supabaseId) == {s \in subs : s.supabaseId = supabaseId}

\* the subscriptions webPush.sendNotification is called for: none when the
\* VAPID keys are missing (break), else each one, whether or not an earlier
\* send threw (try/catch inside the loop)
sendTargets(subs, configured, failed) ==
    IF configured THEN subs ELSE {}

\* Mutants of reachesSave: a send that throws escapes the loop body; the
\* tenant filter of the subscription lookup is lost; the `continue` is lost.
reachesSaveUnlessThrown(subs, configured, failed) ==
    subs # {} /\ (configured => {s \in subs : s.endpoint \in failed} = {})
reachesSaveAnyTenant(subs, configured, failed) == subscriptions # {}
reachesSaveAlways(subs, configured, failed) == TRUE

\* whether the loop body reaches `reminder.status = 'sent'`
reachesSave(subs, configured, failed) == subs # {}

markSent(r, n) ==
    [r EXCEPT !.status = "sent", !.sentAt = n,
              !.interactions = Append(@, Interaction("sent", n, NoDate))]

\* Mutant of cleanUpQuery: the status filter is lost.
cleanUpQueryAnyStatus(r, n) == r.scheduledFor < n - RETENTION_HOURS * 60

\* the filter of cleanUpResolvedReminders' updateMany
cleanUpQuery(r, n) ==
    r.status = "sent" /\ r.scheduledFor < n - RETENTION_HOURS * 60

cleanUpResolvedReminders(rs, n) ==
    [i \in DOMAIN rs |->
        IF cleanUpQuery(rs[i], n) THEN [rs[i] EXCEPT !.status = "dismissed"] ELSE rs[i]]

---------------------------------------------------------------------------
(* Interaction recording, acknowledge, analytics *)

ALLOWED_ACTIONS == {"delivered", "snoozed", "dismissed", "completed"}

\* averageCompletionLeadHours is kept as the exact fraction leadNum/leadDen
smoothedLead(row, absLead) ==
    LET num == SMOOTHING_PERCENT * absLead * row.leadDen
               + (100 - SMOOTHING_PERCENT) * row.leadNum
        den == 100 * row.leadDen
    IN  IF num < den THEN [leadNum |-> 1, leadDen |-> 1]
        ELSE [leadNum |-> num, leadDen |-> den]

\* the pairs (interactionHour, previous hour) for which the sum of the two
\* double products falls below an exact half: 0.35 * 12 + (1 - 0.35) * 2 is
\* 5.499999999999999
BelowHalfInDoubles == {<<12, 2>>}

\* SMOOTHING_FACTOR * interactionHour + (1 - SMOOTHING_FACTOR) * previous as
\* the doubles give it, in hundredths of an hour
smoothedHourOf(interactionHour, previous) ==
    LET exact == SMOOTHING_PERCENT * interactionHour
                 + (100 - SMOOTHING_PERCENT) * previous
    IN  IF <<interactionHour, previous>> \in BelowHalfInDoubles THEN exact - 1 ELSE exact

updateAnalyticsWithInteraction(an, supabaseId, reminder, interactionAction, interactionDate) ==
    LET row == IF an[supabaseId].exists THEN an[supabaseId] ELSE NoAnalytics
        smoothedHour == smoothedHourOf(getHours(interactionDate), row.preferredHourOfDay)
        lead == IF interactionAction = "completed"
                THEN smoothedLead(row,
                        Abs(differenceInHours(interactionDate, reminder.scheduledFor)))
                ELSE [leadNum |-> row.leadNum, leadDen |-> row.leadDen]
    IN  [an EXCEPT ![supabaseId] =
            [exists |-> TRUE,
             preferredHourOfDay |-> clampHour(smoothedHour),
             preferredDayOfWeek |-> getDay(reminder.scheduledFor),
             leadNum |-> lead.leadNum, leadDen |-> lead.leadDen,
             sampleSize |-> row.sampleSize + 1,
             lastComputedAt |-> interactionDate]]

\* the status an interaction sets; the current one when it sets none
statusAfter(r, action, snoozedUntil) ==
    IF action = "snoozed" /\ snoozedUntil # NoDate THEN "snoozed"
    ELSE IF action = "dismissed" THEN "dismissed"
    ELSE IF action = "completed" THEN "completed"
    ELSE r.status

\* Mutant of applyInteraction: an interaction that changes no status is not
\* logged.
applyInteractionOnStatusChange(r, action, snoozedUntil, actedAt) ==
    LET snooze == action = "snoozed" /\ snoozedUntil # NoDate
    IN  [r EXCEPT
            !.interactions = IF statusAfter(r, action, snoozedUntil) # r.status
                             THEN Append(@, Interaction(action, actedAt, snoozedUntil))
                             ELSE @,
            !.status = statusAfter(r, action, snoozedUntil),
            !.snoozedUntil = IF snooze THEN snoozedUntil ELSE @,
            !.scheduledFor = IF snooze THEN snoozedUntil ELSE @,
            !.completionLoggedAt = IF action = "completed" THEN actedAt ELSE @]

\* Mutant of applyInteraction: a snooze leaves scheduledFor as it was.
applyInteractionKeepsSchedule(r, action, snoozedUntil, actedAt) ==
    LET snooze == action = "snoozed" /\ snoozedUntil # NoDate
    IN  [r EXCEPT
            !.interactions = Append(@, Interaction(action, actedAt, snoozedUntil)),
            !.status = statusAfter(r, action, snoozedUntil),
            !.snoozedUntil = IF snooze THEN snoozedUntil ELSE @,
            !.completionLoggedAt = IF action = "completed" THEN actedAt ELSE @]

\* logReminderInteraction up to `await reminder.save()`
applyInteraction(r, action, snoozedUntil, actedAt) ==
    LET snooze == action = "snoozed" /\ snoozedUntil # NoDate
    IN  [r EXCEPT
            !.interactions = Append(@, Interaction(action, actedAt, snoozedUntil)),
            !.status = statusAfter(r, action, snoozedUntil),
            !.snoozedUntil = IF snooze THEN snoozedUntil ELSE @,
            !.scheduledFor = IF snooze THEN snoozedUntil ELSE @,
            !.completionLoggedAt = IF action = "completed" THEN actedAt ELSE @]

\* the ids a client may send: the _id of a stored reminder, a well-formed
\* ObjectId of no reminder, and a string that is no ObjectId
MalformedId == 0
AbsentId(rs) == Len(rs) + 1
RequestIds(rs) == DOMAIN rs \cup {AbsentId(rs), MalformedId}

\* the actions of the requests that may be rejected: an allowed one and an
\* unrecognised one
RequestActions == {"completed", "opened"}

\* Reminder.findById: the document, null, or a CastError for a string that
\* is no ObjectId
findById(rs, id) ==
    IF id = MalformedId THEN "CastError"
    ELSE IF id \in DOMAIN rs THEN "found" ELSE "null"

\* Mutant of analyticsOutcome: a failure of the analytics update reaches
\* the route's catch.
analyticsOutcomeThrown(analyticsFails) == IF analyticsFails THEN 500 ELSE 204

\* the status of POST /:reminderId/interactions once reminder.save() is
\* done: updateAnalyticsWithInteraction catches what findOne or save throw
analyticsOutcome(analyticsFails) == 204

\* the status of POST /:reminderId/interactions: AppError 400, AppError 404,
\* 500 for any other error, 204
interactionStatus(rs, id, action, analyticsFails) ==
    IF action \notin ALLOWED_ACTIONS THEN 400
    ELSE IF findById(rs, id) = "CastError" THEN 500
    ELSE IF findById(rs, id) = "null" THEN 404
    ELSE analyticsOutcome(analyticsFails)

\* POST /:reminderId/acknowledge
acknowledge(r, deliveredAt) ==
    [r EXCEPT !.status = "sent", !.deliveredAt = deliveredAt,
              !.interactions = Append(@, Interaction("delivered", deliveredAt, NoDate))]

---------------------------------------------------------------------------
(* The state machine *)

StartNow == 17 * 60 + 57
TickGaps == {5, DayMinutes}
SnoozeOffsets == {5}

\* two scheduler processes on one database (no lock guards the cron job)
Instances == {1, 2}
NoPending == NewReminder("", "", ForeignId("", NoDate), NoDate)
NoCall == [made |-> FALSE, preferredHour |-> 0, dueDate |-> NoDate, leadMinutes |-> 0,
           startHour |-> 0, endHour |-> 0, at |-> 0, result |-> NoDate]

NoResponse == [op |-> "", id |-> 0, action |-> "", code |-> 0]
NoSeries == [hour |-> 0, count |-> 0, previous |-> 0]
\* the process as deployed: SMART_REMINDERS_DISABLED is not set
DefaultEnv == [SMART_REMINDERS_DISABLED |-> FALSE]

InitStore ==
    /\ now = StartNow
    /\ ticks = 0
    /\ phase = "idle"
    /\ reminders = << >>
    /\ analytics = [t \in Tenants |-> NoAnalytics]
    /\ batch = {}
    /\ pushLog = {}
    /\ requests = 0

Init ==
    /\ InitStore
    /\ subscriptions = {}
    /\ pc = [i \in Instances |-> "idle"]
    /\ pending = [i \in Instances |-> NoPending]
    /\ call = NoCall
    /\ response = NoResponse
    /\ series = NoSeries
    /\ env = DefaultEnv
    /\ preferenceRows = InitialPreferenceRows

\* cron fires: runReminderScheduler up to the end of the three generators
Generate(gap) ==
    /\ phase = "idle"
    /\ ticks < MaxTicks
    /\ now' = now + gap
    /\ ticks' = ticks + 1
    /\ reminders' =
         scheduleBehaviouralReminders(
           scheduleInactivityReminders(
             scheduleDeadlineReminders(reminders, analytics, now'),
             analytics, now'),
           analytics, now')
    /\ phase' = "dispatch"
    /\ response' = NoResponse
    /\ UNCHANGED <<analytics, subscriptions, batch, pushLog, requests, pc, pending, call, series, env, preferenceRows>>

\* cron fires, and a store operation throws for the k-th item of generator
\* `gen`: runReminderScheduler rejects, the cron callback logs the error,
\* and neither the later generators nor dispatch nor sweep run in this tick
GenerateFails(gap, gen, k) ==
    /\ phase = "idle"
    /\ ticks < MaxTicks
    /\ now' = now + gap
    /\ ticks' = ticks + 1
    /\ k \in DOMAIN generatorItems(gen, analytics, now')
    /\ reachesStore(gen, generatorItems(gen, analytics, now')[k], analytics, now')
    /\ reminders' = generatorsUntilFailure(reminders, gen, k, analytics, now')
    /\ phase' = "idle"
    /\ response' = NoResponse
    /\ UNCHANGED <<analytics, subscriptions, batch, pushLog, requests, pc, pending, call, series, env, preferenceRows>>

\* dispatchDueReminders; `configured` is whether the process runs with
\* env.WEB_PUSH_VAPID_PUBLIC_KEY and env.WEB_PUSH_VAPID_PRIVATE_KEY set, and
\* `failed` are the endpoints whose send throws
Dispatch ==
    /\ phase = "dispatch"
    /\ \E b \in Limited({i \in DOMAIN reminders : dispatchQuery(reminders[i], now)},
                        DISPATCH_BATCH_SIZE) :
       \E configured \in BOOLEAN, failed \in SUBSET {s.endpoint : s \in subscriptions} :
          /\ batch' = b
          /\ pushLog' =
               {[reminderId |-> i, endpoint |-> s.endpoint, ok |-> s.endpoint \notin failed] :
                  <<i, s>> \in {q \in b \X subscriptions :
                     q[2] \in sendTargets(subscriptionsOf(subscriptions, reminders[q[1]].supabaseId),
                                          configured, failed)}}
          /\ reminders' =
               [i \in DOMAIN reminders |->
                  IF i \in b /\ reachesSave(subscriptionsOf(subscriptions, reminders[i].supabaseId),
                                            configured, failed)
                  THEN markSent(reminders[i], now) ELSE reminders[i]]
    /\ phase' = "cleanup"
    /\ UNCHANGED <<now, ticks, analytics, subscriptions, requests, pc, pending, call, response, series, env, preferenceRows>>

\* dispatchDueReminders in which PushSubscription.find or reminder.save()
\* throws for the reminder `f` of the batch, after the reminders `done` were
\* handled: the rejection leaves the loop and runReminderScheduler, and the
\* sweep does not run in this tick
DispatchFails ==
    /\ phase = "dispatch"
    /\ \E b \in Limited({i \in DOMAIN reminders : dispatchQuery(reminders[i], now)},
                        DISPATCH_BATCH_SIZE) :
       \E f \in b : \E done \in SUBSET (b \ {f}) :
       \E configured \in BOOLEAN, failed \in SUBSET {s.endpoint : s \in subscriptions} :
          reminders' =
             [i \in DOMAIN reminders |->
                IF i \in done /\ reachesSave(subscriptionsOf(subscriptions, reminders[i].supabaseId),
                                             configured, failed)
                THEN markSent(reminders[i], now) ELSE reminders[i]]
    /\ phase' = "idle"
    /\ batch' = {}
    /\ pushLog' = {}
    /\ UNCHANGED <<now, ticks, analytics, subscriptions, requests, pc, pending, call,
                   response, series, env, preferenceRows>>

\* cleanUpResolvedReminders, and the end of the tick
CleanUp ==
    /\ phase = "cleanup"
    /\ reminders' = cleanUpResolvedReminders(reminders, now)
    /\ phase' = "idle"
    /\ batch' = {}
    /\ pushLog' = {}
    /\ UNCHANGED <<now, ticks, analytics, subscriptions, requests, pc, pending, call, response, series, env, preferenceRows>>

\* POST /:reminderId/interactions with an allowed action and a known id;
\* `analyticsFails` is whether ReminderAnalytics.findOne or analytics.save()
\* throws
LogInteraction(id, action, snoozedUntil, analyticsFails) ==
    /\ phase = "idle"
    /\ requests < MaxRequests
    /\ requests' = requests + 1
    /\ id \in DOMAIN reminders
    /\ action \in ALLOWED_ACTIONS
    /\ reminders' = [reminders EXCEPT ![id] = applyInteraction(@, action, snoozedUntil, now)]
    /\ analytics' = IF analyticsFails THEN analytics
                    ELSE updateAnalyticsWithInteraction(analytics,
                             reminders[id].supabaseId, reminders'[id], action, now)
    /\ response' = [op |-> "interaction", id |-> id, action |-> action,
                    code |-> interactionStatus(reminders, id, action, analyticsFails)]
    /\ UNCHANGED <<now, ticks, phase, subscriptions, batch, pushLog, pc, pending, call, series, env, preferenceRows>>

\* the request served with the analytics store at work
RecordInteraction(id, action, snoozedUntil) ==
    LogInteraction(id, action, snoozedUntil, FALSE)

\* the request served while the analytics store fails
RecordInteractionAnalyticsDown(id, action, snoozedUntil) ==
    LogInteraction(id, action, snoozedUntil, TRUE)

\* POST /:reminderId/interactions with an unrecognised action, or with an id
\* findById finds no reminder for
RejectInteraction(id, action) ==
    /\ phase = "idle"
    /\ requests < MaxRequests
    /\ requests' = requests + 1
    /\ action \notin ALLOWED_ACTIONS \/ findById(reminders, id) # "found"
    /\ response' = [op |-> "interaction", id |-> id, action |-> action,
                    code |-> interactionStatus(reminders, id, action, FALSE)]
    /\ UNCHANGED <<now, ticks, phase, reminders, analytics, subscriptions, batch, pushLog,
                   pc, pending, call, series, env, preferenceRows>>

\* POST /:reminderId/acknowledge with a known id
Acknowledge(id) ==
    /\ phase = "idle"
    /\ requests < MaxRequests
    /\ requests' = requests + 1
    /\ id \in DOMAIN reminders
    /\ reminders' = [reminders EXCEPT ![id] = acknowledge(@, now)]
    /\ response' = [op |-> "acknowledge", id |-> id, action |-> "", code |-> 200]
    /\ UNCHANGED <<now, ticks, phase, analytics, subscriptions, batch, pushLog,
                   pc, pending, call, series, env, preferenceRows>>

\* POST /subscriptions: upsert by endpoint
Subscribe(supabaseId, endpoint) ==
    /\ phase = "idle"
    /\ requests < MaxRequests
    /\ requests' = requests + 1
    /\ subscriptions' = {s \in subscriptions : s.endpoint # endpoint}
                        \cup {[supabaseId |-> supabaseId, endpoint |-> endpoint]}
    /\ subscriptions' # subscriptions
    /\ response' = NoResponse
    /\ UNCHANGED <<now, ticks, phase, reminders, analytics, batch, pushLog,
                   pc, pending, call, series, env, preferenceRows>>

\* DELETE /subscriptions
Unsubscribe(endpoint) ==
    /\ phase = "idle"
    /\ requests < MaxRequests
    /\ requests' = requests + 1
    /\ subscriptions' = {s \in subscriptions : s.endpoint # endpoint}
    /\ subscriptions' # subscriptions
    /\ response' = NoResponse
    /\ UNCHANGED <<now, ticks, phase, reminders, analytics, batch, pushLog,
                   pc, pending, call, series, env, preferenceRows>>

Next ==
    \/ \E gap \in TickGaps : Generate(gap)
    \/ Dispatch
    \/ CleanUp
    \/ \E id \in DOMAIN reminders, action \in ALLOWED_ACTIONS :
          \E until \in {NoDate} \cup {now + d : d \in SnoozeOffsets} :
             /\ (until # NoDate => action = "snoozed")
             /\ RecordInteraction(id, action, until)
    \/ \E id \in DOMAIN reminders : Acknowledge(id)
    \/ \E q \in SubscriptionRequests : Subscribe(q[1], q[2])
    \/ \E e \in Endpoints : Unsubscribe(e)

Spec == Init /\ [][Next]_vars

\* the same program with requests that are rejected and on a store whose
\* operations may fail
NextFaults ==
    \/ Next
    \/ \E id \in RequestIds(reminders), action \in RequestActions :
          RejectInteraction(id, action)
    \/ \E gap \in TickGaps, gen \in Generators, k \in 1 .. 2 * DISPATCH_BATCH_SIZE :
          GenerateFails(gap, gen, k)
    \/ DispatchFails
    \/ \E id \in DOMAIN reminders, action \in ALLOWED_ACTIONS :
          \E until \in {NoDate} \cup {now + d : d \in SnoozeOffsets} :
             /\ (until # NoDate => action = "snoozed")
             /\ RecordInteractionAnalyticsDown(id, action, until)

SpecFaults == Init /\ [][NextFaults]_vars

\* the process started with SMART_REMINDERS_DISABLED=true (ENV_CONFIG.md);
\* no line of reminderScheduler.js or of the routes reads the variable, so
\* the steps are those of Next
InitDisabled ==
    /\ InitStore
    /\ subscriptions = {}
    /\ pc = [i \in Instances |-> "idle"]
    /\ pending = [i \in Instances |-> NoPending]
    /\ call = NoCall
    /\ response = NoResponse
    /\ series = NoSeries
    /\ env = [SMART_REMINDERS_DISABLED |-> TRUE]
    /\ preferenceRows = InitialPreferenceRows

SpecDisabled == InitDisabled /\ [][Next]_vars

\* the same program with the preferences routes, started when u2 has no
\* ReminderPreference row yet
InitPreferences ==
    /\ InitStore
    /\ subscriptions = {}
    /\ pc = [i \in Instances |-> "idle"]
    /\ pending = [i \in Instances |-> NoPending]
    /\ call = NoCall
    /\ response = NoResponse
    /\ series = NoSeries
    /\ env = DefaultEnv
    /\ preferenceRows = [InitialPreferenceRows EXCEPT !["u2"].exists = FALSE]

\* GET /preferences of a tenant without a row: the row is created with the
\* schema defaults
GetPreferences(supabaseId) ==
    /\ phase = "idle"
    /\ requests < MaxRequests
    /\ requests' = requests + 1
    /\ ~preferenceRows[supabaseId].exists
    /\ preferenceRows' = [preferenceRows EXCEPT
          ![supabaseId] = [exists |-> TRUE, smartRemindersEnabled |-> TRUE]]
    /\ response' = NoResponse
    /\ UNCHANGED <<now, ticks, phase, reminders, analytics, subscriptions, batch, pushLog,
                   pc, pending, call, series, env>>

\* PUT /preferences with smartRemindersEnabled in the body: upsert
PutPreferences(supabaseId, smartRemindersEnabled) ==
    /\ phase = "idle"
    /\ requests < MaxRequests
    /\ requests' = requests + 1
    /\ preferenceRows' = [preferenceRows EXCEPT
          ![supabaseId] = [exists |-> TRUE, smartRemindersEnabled |-> smartRemindersEnabled]]
    /\ preferenceRows' # preferenceRows
    /\ response' = NoResponse
    /\ UNCHANGED <<now, ticks, phase, reminders, analytics, subscriptions, batch, pushLog,
                   pc, pending, call, series, env>>

NextPreferences ==
    \/ Next
    \/ \E t \in Tenants : GetPreferences(t)
    \/ \E t \in Tenants, enabled \in BOOLEAN : PutPreferences(t, enabled)

SpecPreferences == InitPreferences /\ [][NextPreferences]_vars

---------------------------------------------------------------------------
(* Two scheduler instances inside scheduleDeadlineReminders.  Each loop     *)
(* iteration awaits dedupeExistingReminder and later reminder.save(); the   *)
(* other instance, and client requests, run in between.                     *)

\* the loop body up to `if (existing) continue`
ConcDedupe(inst, k) ==
    LET assignment == Assignments[k]
        supabaseId == assignment.supabaseId
        scheduledFor == suggestSchedule(calculatePreferredHour(analytics, supabaseId),
                            assignment.dueDate, ReminderPreferences[supabaseId],
                            DEFAULT_LEAD_MINUTES, now)
        d == dedupeExistingReminder(reminders, supabaseId, "DEADLINE",
                 ForeignId(assignment.id, NoDate), scheduledFor)
    IN  /\ pc[inst] = "idle"
        /\ deadlineQuery(assignment, now)
        /\ supabaseId \in fetchPreferencesMap
        /\ IF d.existing # 0
           THEN /\ reminders' = d.store
                /\ reminders' # reminders
                /\ UNCHANGED <<pc, pending>>
           ELSE /\ pc' = [pc EXCEPT ![inst] = "save"]
                /\ pending' = [pending EXCEPT ![inst] =
                      NewReminder(supabaseId, "DEADLINE", ForeignId(assignment.id, NoDate),
                                  scheduledFor)]
                /\ UNCHANGED reminders
        /\ UNCHANGED <<now, ticks, phase, analytics, subscriptions, batch, pushLog,
                       requests, call, response, series, env, preferenceRows>>

\* `await reminder.save()` of the loop body
ConcSave(inst) ==
    /\ pc[inst] = "save"
    /\ reminders' = Append(reminders, pending[inst])
    /\ pc' = [pc EXCEPT ![inst] = "idle"]
    /\ pending' = [pending EXCEPT ![inst] = NoPending]
    /\ UNCHANGED <<now, ticks, phase, analytics, subscriptions, batch, pushLog,
                   requests, call, response, series, env, preferenceRows>>

\* time passes between cron firings
ConcClock(gap) ==
    /\ ticks < MaxTicks
    /\ now' = now + gap
    /\ ticks' = ticks + 1
    /\ UNCHANGED <<phase, reminders, analytics, subscriptions, batch, pushLog,
                   requests, pc, pending, call, response, series, env, preferenceRows>>

NextConc ==
    \/ \E inst \in Instances, k \in DOMAIN Assignments : ConcDedupe(inst, k)
    \/ \E inst \in Instances : ConcSave(inst)
    \/ \E gap \in TickGaps : ConcClock(gap)
    \/ \E id \in DOMAIN reminders, action \in ALLOWED_ACTIONS :
          \E until \in {NoDate} \cup {now + d : d \in SnoozeOffsets} :
             /\ (until # NoDate => action = "snoozed")
             /\ RecordInteraction(id, action, until)

SpecConc == Init /\ [][NextConc]_vars

---------------------------------------------------------------------------
(* suggestSchedule as a function of its inputs *)

Hours == 0 .. 23
\* no due date (behavioural generator), and the scenario's 2025-03-10T09:00Z
DueDates == {NoDate, DayMinutes + 9 * 60}
\* 2025-03-09T12:00Z, and 2025-03-10T19:00Z
CallTimes == {12 * 60, DayMinutes + 19 * 60}
\* the default lead, and a short one set through PUT /preferences
LeadMinutes == {DEFAULT_LEAD_MINUTES, 20}

SuggestCall ==
    /\ ~call.made
    /\ \E preferredHour \in Hours, startHour \in Hours, endHour \in Hours,
          dueDate \in DueDates, at \in CallTimes, leadMinutes \in LeadMinutes :
          call' = [made |-> TRUE, preferredHour |-> preferredHour, dueDate |-> dueDate,
                   leadMinutes |-> leadMinutes,
                   startHour |-> startHour, endHour |-> endHour, at |-> at,
                   result |-> suggestSchedule(preferredHour, dueDate,
                                 [Preference(TRUE, startHour, endHour)
                                    EXCEPT !.defaultLeadMinutes = leadMinutes],
                                 DEFAULT_LEAD_MINUTES, at)]
    /\ UNCHANGED <<now, ticks, phase, reminders, analytics, subscriptions, batch,
                   pushLog, requests, pc, pending, response, series, env, preferenceRows>>

SpecSchedule == Init /\ [][SuggestCall]_vars

---------------------------------------------------------------------------
(* A run of interactions recorded at one hour of day, one per day, on one   *)
(* reminder of u1, from any stored preferredHourOfDay                       *)

SeriesReminder ==
    NewReminder("u1", "DEADLINE", ForeignId("a1", NoDate), DayMinutes + 18 * 60)

InitSeries ==
    /\ now = StartNow
    /\ ticks = 0
    /\ phase = "idle"
    /\ batch = {}
    /\ pushLog = {}
    /\ requests = 0
    /\ subscriptions = {}
    /\ pc = [i \in Instances |-> "idle"]
    /\ pending = [i \in Instances |-> NoPending]
    /\ call = NoCall
    /\ response = NoResponse
    /\ env = DefaultEnv
    /\ preferenceRows = InitialPreferenceRows
    /\ \E hour \in Hours, previous \in Hours :
          /\ series = [hour |-> hour, count |-> 0, previous |-> previous]
          /\ reminders = << SeriesReminder >>
          /\ analytics = [t \in Tenants |->
                IF t = "u1"
                THEN [NoAnalytics EXCEPT !.exists = TRUE, !.preferredHourOfDay = previous]
                ELSE NoAnalytics]

\* logReminderInteraction({reminderId, action: 'delivered'}) at series.hour
\* o'clock of the next day
SeriesInteraction ==
    /\ series.count < MaxSeries
    /\ now' = setHours(now + DayMinutes, series.hour)
    /\ reminders' = [reminders EXCEPT ![1] = applyInteraction(@, "delivered", NoDate, now')]
    /\ analytics' = updateAnalyticsWithInteraction(analytics, "u1", reminders'[1],
                         "delivered", now')
    /\ series' = [series EXCEPT !.count = @ + 1,
                                !.previous = analytics["u1"].preferredHourOfDay]
    /\ UNCHANGED <<ticks, phase, subscriptions, batch, pushLog, requests, pc, pending,
                   call, response, env, preferenceRows>>

SpecSeries == InitSeries /\ [][SeriesInteraction]_vars

---------------------------------------------------------------------------
(* The tick every five minutes, around the hours of 2025-03-10, for a     *)
(* tenant with a push subscription and any learned preferred hour          *)

\* eight minutes before each full hour of 2025-03-10
StartTimes == {DayMinutes + 60 * h - 8 : h \in Hours}

InitEveryFive ==
    /\ ticks = 0
    /\ phase = "idle"
    /\ reminders = << >>
    /\ batch = {}
    /\ pushLog = {}
    /\ requests = 0
    /\ subscriptions = {[supabaseId |-> "u1", endpoint |-> "e1"]}
    /\ pc = [i \in Instances |-> "idle"]
    /\ pending = [i \in Instances |-> NoPending]
    /\ call = NoCall
    /\ response = NoResponse
    /\ series = NoSeries
    /\ env = DefaultEnv
    /\ preferenceRows = InitialPreferenceRows
    /\ now \in StartTimes
    /\ \E hour \in Hours :
          analytics = [t \in Tenants |->
                IF t = "u1"
                THEN [NoAnalytics EXCEPT !.exists = TRUE, !.preferredHourOfDay = hour]
                ELSE NoAnalytics]

NextEveryFive ==
    \/ Generate(DISPATCH_WINDOW_MINUTES)
    \/ Dispatch
    \/ CleanUp

SpecEveryFive == InitEveryFive /\ [][NextEveryFive]_vars

---------------------------------------------------------------------------
(* The dispatcher next to a client request: dispatchDueReminders awaits    *)
(* PushSubscription.find and webPush.sendNotification between its          *)
(* Reminder.find and each reminder.save(), and requests are served         *)
(* meanwhile.  save() writes the paths the dispatcher modified ($set of    *)
(* status and sentAt, $push of the entry) onto the stored document.        *)

\* dispatchDueReminders up to the end of its Reminder.find
DispatchRead ==
    /\ phase = "dispatch"
    /\ batch' \in Limited({i \in DOMAIN reminders : dispatchQuery(reminders[i], now)},
                          DISPATCH_BATCH_SIZE)
    /\ phase' = "sending"
    /\ UNCHANGED <<now, ticks, reminders, analytics, subscriptions, pushLog, requests, pc,
                   pending, call, response, series, env, preferenceRows>>

\* POST /:reminderId/interactions served while the dispatcher is between
\* its read and its saves
RecordInteractionWhileSending(id, action) ==
    /\ phase = "sending"
    /\ requests < MaxRequests
    /\ requests' = requests + 1
    /\ id \in DOMAIN reminders
    /\ action \in ALLOWED_ACTIONS
    /\ reminders' = [reminders EXCEPT ![id] = applyInteraction(@, action, NoDate, now)]
    /\ analytics' = updateAnalyticsWithInteraction(analytics,
                         reminders[id].supabaseId, reminders'[id], action, now)
    /\ response' = [op |-> "interaction", id |-> id, action |-> action,
                    code |-> interactionStatus(reminders, id, action, FALSE)]
    /\ UNCHANGED <<now, ticks, phase, subscriptions, batch, pushLog, pc, pending, call,
                   series, env, preferenceRows>>

\* the loop of dispatchDueReminders over the reminders it read
DispatchSave ==
    /\ phase = "sending"
    /\ \E configured \in BOOLEAN, failed \in SUBSET {s.endpoint : s \in subscriptions} :
          /\ pushLog' =
               {[reminderId |-> i, endpoint |-> s.endpoint, ok |-> s.endpoint \notin failed] :
                  <<i, s>> \in {q \in batch \X subscriptions :
                     q[2] \in sendTargets(subscriptionsOf(subscriptions, reminders[q[1]].supabaseId),
                                          configured, failed)}}
          /\ reminders' =
               [i \in DOMAIN reminders |->
                  IF i \in batch /\ reachesSave(subscriptionsOf(subscriptions, reminders[i].supabaseId),
                                                configured, failed)
                  THEN markSent(reminders[i], now) ELSE reminders[i]]
    /\ phase' = "cleanup"
    /\ UNCHANGED <<now, ticks, analytics, subscriptions, batch, requests, pc, pending, call,
                   response, series, env, preferenceRows>>

NextRace ==
    \/ \E gap \in TickGaps : Generate(gap)
    \/ DispatchRead
    \/ DispatchSave
    \/ CleanUp
    \/ \E id \in DOMAIN reminders, action \in ALLOWED_ACTIONS :
          RecordInteraction(id, action, NoDate)
    \/ \E id \in DOMAIN reminders, action \in ALLOWED_ACTIONS :
          RecordInteractionWhileSending(id, action)
    \/ \E q \in SubscriptionRequests : Subscribe(q[1], q[2])

SpecRace == Init /\ [][NextRace]_vars

---------------------------------------------------------------------------
(* The recurring tick over a long time: the cron job keeps firing, and the *)
(* firings looked at are 5 days apart, more than the longest time from a   *)
(* tick to a scheduledFor it sets (the threshold of 72 h, to the end of    *)
(* that day) plus the retention of 24 h                                    *)

RetentionGap == 5 * DayMinutes

NextRecurring ==
    \/ Generate(RetentionGap)
    \/ Dispatch
    \/ CleanUp
    \/ \E id \in DOMAIN reminders, action \in ALLOWED_ACTIONS :
          RecordInteraction(id, action, NoDate)
    \/ \E id \in DOMAIN reminders : Acknowledge(id)

\* cron.schedule fires again and again, and a tick that started runs on
SpecRecurring ==
    /\ Init
    /\ [][NextRecurring]_vars
    /\ WF_vars(Generate(RetentionGap))
    /\ WF_vars(Dispatch)
    /\ WF_vars(CleanUp)

---------------------------------------------------------------------------
(* Properties *)

dedupKey(r) == <<r.supabaseId, r.type, r.foreignId>>
isLive(r) == r.status \in {"scheduled", "queued", "sent", "snoozed"}
isTerminal(r) == r.status \in {"dismissed", "completed"}
inWindow(r, n) == n - 5 <= r.scheduledFor /\ r.scheduledFor <= n
hasNoSubscription(r) == ~ \E s \in subscriptions : s.supabaseId = r.supabaseId
sentEntry(n) == [action |-> "sent", actedAt |-> n, snoozedUntil |-> NoDate]

\* C1: in every reachable state there is at most one live reminder (status
\* scheduled, queued, sent or snoozed) for each (tenant, type, foreignId).
C1_OneLivePerDedupKey ==
    \A i, j \in DOMAIN reminders :
        (i # j /\ isLive(reminders[i]) /\ isLive(reminders[j]))
            => dedupKey(reminders[i]) # dedupKey(reminders[j])

\* C2: when two scheduler instances interleave the lookup of
\* dedupeExistingReminder and the later save of the generator, the store
\* never holds two live reminders with one dedup key that the generators
\* created (reminders no client has touched).
C2_NoDuplicateUnderConcurrency ==
    \A i, j \in DOMAIN reminders :
        (/\ i < j
         /\ dedupKey(reminders[i]) = dedupKey(reminders[j])
         /\ reminders[i].interactions = << >>
         /\ reminders[j].interactions = << >>)
            => ~(isLive(reminders[i]) /\ isLive(reminders[j]))

\* C3: a reminder whose status is dismissed or completed keeps that status
\* in every step (interaction, acknowledge, dispatcher, generators, sweep).
C3_TerminalAbsorbing ==
    [][\A i \in DOMAIN reminders :
          isTerminal(reminders[i]) => reminders'[i].status = reminders[i].status]_vars

C5_NoSubscriptionSkips ==
    [][/\ phase = "dispatch" =>
             \A i \in DOMAIN reminders :
                /\ (i \in batch' /\ hasNoSubscription(reminders[i])) =>
                      /\ reminders'[i].status = reminders[i].status
                      /\ reminders'[i].sentAt = reminders[i].sentAt
                      /\ reminders'[i].interactions = reminders[i].interactions
                /\ reminders'[i] # reminders[i] => inWindow(reminders[i], now)
       /\ phase = "cleanup" =>
             \A i \in batch :
                hasNoSubscription(reminders[i]) => reminders'[i] = reminders[i]]_vars

\* C5 witness: the dispatcher has selected a reminder of a tenant without
\* subscription and left it unsent.
C5_Witness ==
    /\ phase = "cleanup"
    /\ \E i \in batch :
          /\ hasNoSubscription(reminders[i])
          /\ reminders[i].status # "sent"
          /\ reminders[i].sentAt = NoDate

\* C6 as stated: a reminder with scheduledFor = now - 2min and status
\* scheduled whose tenant has no push subscription is sent by the dispatch.
C6_ZeroSubscriptionsSent ==
    [][phase = "dispatch" =>
         \A i \in DOMAIN reminders :
            (/\ reminders[i].scheduledFor = now - 2
             /\ reminders[i].status = "scheduled"
             /\ hasNoSubscription(reminders[i])) =>
               reminders'[i].status = "sent" /\ reminders'[i].sentAt # NoDate]_vars

\* C6 amended: such a reminder is selected and skipped: after the dispatch
\* its status is still scheduled and its sentAt unset, and the dispatcher
\* has run to its end.
C6_ZeroSubscriptionsSkipped ==
    [][phase = "dispatch" =>
         \A i \in DOMAIN reminders :
            (/\ reminders[i].scheduledFor = now - 2
             /\ reminders[i].status = "scheduled"
             /\ hasNoSubscription(reminders[i])) =>
               /\ reminders'[i].status = "scheduled"
               /\ reminders'[i].sentAt = NoDate
               /\ phase' = "cleanup"]_vars

\* C6 witness: the scenario's reminder after the dispatch that selected it.
C6_Witness ==
    /\ phase = "cleanup"
    /\ \E i \in batch :
          /\ reminders[i].scheduledFor = now - 2
          /\ reminders[i].status = "scheduled"
          /\ hasNoSubscription(reminders[i])

\* the results of a query truncated to k documents
truncations(S, k) ==
    IF Cardinality(S) <= k THEN {S} ELSE {T \in SUBSET S : Cardinality(T) = k}

\* C7 as stated: the dispatcher processes the live reminders (scheduled,
\* queued, sent or snoozed) of the window, truncated to the batch size.
C7_BatchIsLiveInWindow ==
    [][phase = "dispatch" =>
         batch' \in truncations(
            {i \in DOMAIN reminders : isLive(reminders[i]) /\ inWindow(reminders[i], now)},
            DISPATCH_BATCH_SIZE)]_vars

\* C7 amended: the dispatcher processes the reminders with status scheduled,
\* queued or snoozed of the window, truncated to the batch size; it changes
\* no reminder outside its batch, none outside the window and no terminal one.
C7_BatchIsUnsentInWindow ==
    [][phase = "dispatch" =>
         /\ batch' \in truncations(
               {i \in DOMAIN reminders :
                   /\ reminders[i].status \in {"scheduled", "queued", "snoozed"}
                   /\ inWindow(reminders[i], now)},
               DISPATCH_BATCH_SIZE)
         /\ \A i \in DOMAIN reminders :
               reminders'[i] # reminders[i] =>
                  i \in batch' /\ inWindow(reminders[i], now) /\ ~isTerminal(reminders[i])]_vars

\* C7 witness: a dispatch whose batch is full and leaves out a reminder of
\* the window that is not sent yet.
C7_Witness ==
    /\ phase = "cleanup"
    /\ Cardinality(batch) = DISPATCH_BATCH_SIZE
    /\ \E j \in DOMAIN reminders \ batch :
          reminders[j].status \in {"scheduled", "queued", "snoozed"} /\ inWindow(reminders[j], now)

\* C8: the retention sweep at time now sets to dismissed exactly the
\* reminders with status sent and scheduledFor < now - 24h and changes
\* nothing else.
C8_SweepDismissesOldSent ==
    [][phase = "cleanup" =>
         /\ DOMAIN reminders' = DOMAIN reminders
         /\ \A i \in DOMAIN reminders :
               IF reminders[i].status = "sent" /\ reminders[i].scheduledFor < now - 24 * 60
               THEN reminders'[i] = [reminders[i] EXCEPT !.status = "dismissed"]
               ELSE reminders'[i] = reminders[i]]_vars

\* C8 witness: after a sweep, a reminder dismissed by it (no client ever
\* dismissed it) next to a younger sent reminder the sweep has left alone.
C8_Witness ==
    /\ phase = "idle"
    /\ \E i \in DOMAIN reminders :
          /\ reminders[i].status = "dismissed"
          /\ reminders[i].scheduledFor < now - 24 * 60
          /\ \A k \in DOMAIN reminders[i].interactions :
                reminders[i].interactions[k].action # "dismissed"

\* C9: with defaultLeadMinutes 180, quiet hours {0, 0}, preferred hour 18,
\* dueDate 2025-03-10T09:00Z and a now before the result, suggestSchedule
\* returns 2025-03-09T18:00Z, which is not later than dueDate minus the lead.
C9_ScenarioSchedule ==
    (/\ call.made
     /\ call.preferredHour = 18
     /\ call.leadMinutes = 180
     /\ call.startHour = 0 /\ call.endHour = 0
     /\ call.dueDate = 24 * 60 + 9 * 60
     /\ call.at < 18 * 60)
        => call.result = 18 * 60 /\ call.result <= call.dueDate - call.leadMinutes

\* the quiet window [startHour, endHour), wrapping past midnight when
\* startHour > endHour
inQuietWindow(startHour, endHour, hour) ==
    IF startHour < endHour THEN startHour <= hour /\ hour < endHour
    ELSE hour >= startHour \/ hour < endHour

\* C10: whenever startHour # endHour, the hour of the time suggestSchedule
\* returns lies outside the quiet window.
C10_OutsideQuietWindow ==
    (call.made /\ call.startHour # call.endHour)
        => ~inQuietWindow(call.startHour, call.endHour, (call.result % (24 * 60)) \div 60)

\* the reminders a generator step has created or rescheduled
scheduledByStep(i) ==
    \/ i \notin DOMAIN reminders
    \/ reminders'[i].scheduledFor # reminders[i].scheduledFor

\* C11: whenever a generator (deadline, inactivity or behavioural) creates a
\* reminder or reschedules a live one for a tenant whose quietHours has
\* startHour # endHour, the hour of the resulting scheduledFor lies outside
\* the tenant's quiet window.
C11_GeneratorsRespectQuietHours ==
    [][ticks' = ticks + 1 =>
         \A i \in DOMAIN reminders' :
            LET q == ReminderPreferences[reminders'[i].supabaseId].quietHours
            IN  (scheduledByStep(i) /\ q.startHour # q.endHour) =>
                   ~inQuietWindow(q.startHour, q.endHour,
                                  (reminders'[i].scheduledFor % (24 * 60)) \div 60)]_vars

\* the candidate of a call: anchor minus lead, at the preferred hour, after
\* the quiet-hours shift
candidateOf(c) ==
    LET anchor == IF c.dueDate # 0 - 1 THEN c.dueDate ELSE c.at + c.leadMinutes
        day == (anchor - c.leadMinutes) \div (24 * 60)
    IN  IF c.startHour # c.endHour /\ inQuietWindow(c.startHour, c.endHour, c.preferredHour)
        THEN day * 24 * 60 + ((c.endHour + 1) % 24) * 60
        ELSE day * 24 * 60 + c.preferredHour * 60

halfLeadOrThirty(c) ==
    IF c.leadMinutes \div 2 > 30 THEN c.leadMinutes \div 2 ELSE 30

\* C12: suggestSchedule never returns a time earlier than the now of the
\* call; when the candidate is before now, the result is
\* now + max(30 minutes, leadMinutes / 2).
C12_NeverInThePast ==
    call.made =>
        /\ call.result >= call.at
        /\ candidateOf(call) < call.at => call.result = call.at + halfLeadOrThirty(call)

\* C12 witness: a call with the short lead whose candidate lay in the past
\* and was clamped to now + 30 minutes.
C12_Witness ==
    /\ call.made
    /\ call.leadMinutes = 20
    /\ candidateOf(call) < call.at
    /\ call.result = call.at + 30

\* round(x) clamped to [0, 23], for x given exactly in hundredths
roundedHour(x100) ==
    IF x100 < 0 THEN 0 ELSE IF x100 > 2300 THEN 23 ELSE (x100 + 50) \div 100

hourDistance(h) == IF h >= series.hour THEN h - series.hour ELSE series.hour - h

\* C13: each interaction recorded at hour H sets preferredHourOfDay to
\* round(0.35 * H + 0.65 * previous) clamped to [0, 23]; the distance
\* |preferredHourOfDay - H| never increases, and after 10 interactions at
\* hour H it is at most 1.
C13_SmoothingRoundsAndConverges ==
    [][series'.count = series.count + 1 =>
         /\ analytics'["u1"].preferredHourOfDay =
               roundedHour(35 * series.hour + 65 * analytics["u1"].preferredHourOfDay)
         /\ hourDistance(analytics'["u1"].preferredHourOfDay)
               <= hourDistance(analytics["u1"].preferredHourOfDay)
         /\ series'.count >= 10 => hourDistance(analytics'["u1"].preferredHourOfDay) <= 1]_vars

\* the two other parts of C13 alone: the distance to H never increases, and
\* is at most 1 after 10 interactions
SmoothingConverges ==
    [][series'.count = series.count + 1 =>
         /\ hourDistance(analytics'["u1"].preferredHourOfDay)
               <= hourDistance(analytics["u1"].preferredHourOfDay)
         /\ series'.count >= 10 => hourDistance(analytics'["u1"].preferredHourOfDay) <= 1]_vars

\* the number of interaction entries on the reminders rs[1..k] of tenant t
RECURSIVE entriesOf(_, _, _)
entriesOf(rs, k, t) ==
    IF k = 0 THEN 0
    ELSE entriesOf(rs, k - 1, t)
         + (IF rs[k].supabaseId = t THEN Len(rs[k].interactions) ELSE 0)

sampleSizeOf(an, t) == IF an[t].exists THEN an[t].sampleSize ELSE 0

\* a step that serves POST /:reminderId/interactions
interactionStep == requests' = requests + 1 /\ response'.op = "interaction"

\* C14: every step that appends interaction entries (the dispatcher's `sent`,
\* acknowledge's `delivered`, a recorded interaction) to a tenant's reminders
\* adds as many to the tenant's sampleSize and sets lastComputedAt, so that
\* sampleSize counts the entries; the one exception made here is a recorded
\* interaction whose analytics update failed.
C14_SampleSizeCountsEntries ==
    [][\A t \in {"u1", "u2"} :
          LET before == entriesOf(reminders, Len(reminders), t)
              after == entriesOf(reminders', Len(reminders'), t)
          IN  (after > before /\ ~(interactionStep /\ analytics' = analytics)) =>
                 /\ sampleSizeOf(analytics', t) = sampleSizeOf(analytics, t) + (after - before)
                 /\ analytics'[t].lastComputedAt = now]_vars

lastEntry(r) == r.interactions[Len(r.interactions)]

\* C15: a record-interaction request with an allowed action and a known id
\* succeeds (204) also when the analytics row cannot be read or saved (the
\* row is then unchanged), and the reminder keeps the new entry and the
\* status the action sets.
C15_AnalyticsFailureSwallowed ==
    [][(/\ interactionStep
        /\ response'.id \in DOMAIN reminders
        /\ response'.action \in {"delivered", "snoozed", "dismissed", "completed"}
        /\ analytics' = analytics) =>
          LET old == reminders[response'.id]
              new == reminders'[response'.id]
          IN  /\ response'.code = 204
              /\ Len(new.interactions) = Len(old.interactions) + 1
              /\ lastEntry(new).action = response'.action
              /\ lastEntry(new).actedAt = now
              /\ response'.action \in {"dismissed", "completed"} =>
                    new.status = response'.action]_vars

\* C15 witness: a `completed` interaction was answered 204 and is on the
\* reminder, while the tenant has no analytics row at all: the update failed.
C15_Witness ==
    /\ response.op = "interaction"
    /\ response.code = 204
    /\ response.action = "completed"
    /\ reminders[response.id].status = "completed"
    /\ lastEntry(reminders[response.id]).actedAt = now
    /\ ~analytics[reminders[response.id].supabaseId].exists

\* C16: a record-interaction request with an unknown reminder id fails with
\* NotFound (404), one with an unrecognised action fails with InvalidAction
\* (400; it is checked first), and neither changes a reminder or an
\* analytics row.
C16_RejectedWithoutChange ==
    [][interactionStep =>
         /\ response'.action \notin {"delivered", "snoozed", "dismissed", "completed"} =>
               response'.code = 400 /\ reminders' = reminders /\ analytics' = analytics
         /\ (/\ response'.id \notin DOMAIN reminders
             /\ response'.action \in {"delivered", "snoozed", "dismissed", "completed"}) =>
               response'.code = 404 /\ reminders' = reminders /\ analytics' = analytics]_vars

\* C17: acknowledging a reminder that the previous request has already
\* acknowledged leaves the reminder as it is.
C17_AcknowledgeIdempotent ==
    [][(/\ response.op = "acknowledge"
        /\ requests' = requests + 1
        /\ response'.op = "acknowledge"
        /\ response'.id = response.id) =>
          reminders'[response.id] = reminders[response.id]]_vars

\* s is t, or t with entries added at its end
isPrefix(s, t) == Len(s) <= Len(t) /\ SubSeq(t, 1, Len(s)) = s

\* C18: in every step each reminder stays in the store with its earlier
\* interaction entries unchanged and in place, and every accepted
\* record-interaction request appends exactly one entry, with the request's
\* action and actedAt = now, also when it changes no status.
C18_InteractionsAppendOnly ==
    [][/\ \A i \in DOMAIN reminders :
             /\ i \in DOMAIN reminders'
             /\ isPrefix(reminders[i].interactions, reminders'[i].interactions)
       /\ (interactionStep /\ response'.code = 204) =>
             LET old == reminders[response'.id]
                 new == reminders'[response'.id]
             IN  /\ Len(new.interactions) = Len(old.interactions) + 1
                 /\ lastEntry(new).action = response'.action
                 /\ lastEntry(new).actedAt = now
                 /\ \A j \in DOMAIN reminders :
                       j # response'.id => reminders'[j].interactions = reminders[j].interactions]_vars

\* C18 witness: a reminder with two entries, the first a `delivered` one that
\* left its status scheduled.
C18_Witness ==
    \E i \in DOMAIN reminders :
        /\ Len(reminders[i].interactions) = 2
        /\ reminders[i].interactions[1].action = "delivered"
        /\ reminders[i].interactions[2].action = "snoozed"
        /\ reminders[i].interactions[2].snoozedUntil = 0 - 1
        /\ reminders[i].status = "scheduled"

\* C19: for each tenant and each calendar day the store holds at most one
\* BEHAVIORAL reminder (foreignId behaviour_<ISO day>), whatever its status.
C19_OneBehaviouralPerDay ==
    \A i, j \in DOMAIN reminders :
        (/\ i # j
         /\ reminders[i].type = "BEHAVIORAL"
         /\ reminders[j].type = "BEHAVIORAL"
         /\ reminders[i].supabaseId = reminders[j].supabaseId)
            => reminders[i].foreignId # reminders[j].foreignId

\* C20: whatever fails for one item, a tick that has started goes through
\* its generators to the dispatch, and from the dispatch to the sweep.
C20_FailureConfinedToItem ==
    [][/\ ticks' = ticks + 1 => phase' = "dispatch"
       /\ phase = "dispatch" => phase' = "cleanup"]_vars

\* a step of the tick: the generators, the dispatcher or the sweep
tickStep == ticks' # ticks \/ phase \in {"dispatch", "cleanup"}

\* C21: when SMART_REMINDERS_DISABLED is true, a scheduler tick creates no
\* reminder, reschedules no reminder and sends no push notification.
C21_DisabledTickDoesNothing ==
    [][(env.SMART_REMINDERS_DISABLED /\ tickStep) =>
          /\ Len(reminders') = Len(reminders)
          /\ \A i \in DOMAIN reminders : reminders'[i].scheduledFor = reminders[i].scheduledFor
          /\ pushLog' = {}]_vars

\* the live reminders of a dedup key in a store
liveWithKey(rs, key) == {i \in DOMAIN rs : isLive(rs[i]) /\ dedupKey(rs[i]) = key}

\* the assignments the deadline generator upserts a reminder for at time n,
\* with the dedup key and the candidate of each
deadlineUpserts(n) ==
    {[key |-> <<a.supabaseId, "DEADLINE", ForeignId(a.id, NoDate)>>,
      candidate |-> suggestSchedule(calculatePreferredHour(analytics, a.supabaseId),
                        a.dueDate, ReminderPreferences[a.supabaseId],
                        DEFAULT_LEAD_MINUTES, n)] :
       a \in {b \in {deadlineItems(n)[k] : k \in DOMAIN deadlineItems(n)} :
                 b.supabaseId \in fetchPreferencesMap}}

\* C22: in a generator step, when the dedup/upsert finds a live reminder with
\* the dedup key, the number of reminders with that key is unchanged and only
\* the scheduledFor of the reminder found changes, to the candidate (status,
\* sentAt, snoozedUntil and interactions are as before); when none is found,
\* exactly one reminder is created, with status scheduled, no interactions
\* and scheduledFor equal to the candidate.
C22_UpsertFrame ==
    [][ticks' # ticks =>
         LET old == DOMAIN reminders
             new == DOMAIN reminders' \ DOMAIN reminders
         IN  /\ Len(reminders') >= Len(reminders)
             /\ \A i \in old :
                   /\ reminders'[i] =
                        [reminders[i] EXCEPT !.scheduledFor = reminders'[i].scheduledFor]
                   /\ reminders'[i] # reminders[i] => isLive(reminders[i])
             /\ \A j \in new :
                   /\ reminders'[j] =
                        NewReminder(reminders'[j].supabaseId, reminders'[j].type,
                                    reminders'[j].foreignId, reminders'[j].scheduledFor)
                   /\ liveWithKey(reminders, dedupKey(reminders'[j])) = {}
                   /\ \A k \in new : dedupKey(reminders'[k]) = dedupKey(reminders'[j]) => k = j
             /\ \A u \in deadlineUpserts(now') :
                   IF liveWithKey(reminders, u.key) # {}
                   THEN /\ \E i \in liveWithKey(reminders, u.key) :
                              reminders'[i].scheduledFor = u.candidate
                        /\ ~ \E j \in new : dedupKey(reminders'[j]) = u.key
                   ELSE \E j \in new :
                           /\ dedupKey(reminders'[j]) = u.key
                           /\ reminders'[j].scheduledFor = u.candidate]_vars

\* C22 witness: the generators have run on a store in which a reminder was
\* snoozed: it is rescheduled away from its snoozedUntil and is still
\* snoozed, with its interactions, next to reminders created in the step.
C22_Witness ==
    /\ phase = "dispatch"
    /\ \E i \in DOMAIN reminders :
          /\ reminders[i].status = "snoozed"
          /\ reminders[i].snoozedUntil # NoDate
          /\ reminders[i].scheduledFor # reminders[i].snoozedUntil
          /\ reminders[i].interactions # << >>
    /\ \E j \in DOMAIN reminders :
          reminders[j].interactions = << >> /\ reminders[j].status = "scheduled"

smartEnabled(t) == preferenceRows[t].exists /\ preferenceRows[t].smartRemindersEnabled

\* C24: in a tick no generator creates or reschedules a reminder for a
\* tenant whose ReminderPreference row has smartRemindersEnabled = false or
\* who has no row; the reminders such a tenant has stay as they are.
C24_DisabledTenantsUntouched ==
    [][ticks' # ticks =>
         \A t \in Tenants :
            ~smartEnabled(t) =>
               /\ \A i \in DOMAIN reminders :
                     reminders[i].supabaseId = t => reminders'[i] = reminders[i]
               /\ \A j \in DOMAIN reminders' \ DOMAIN reminders :
                     reminders'[j].supabaseId # t]_vars

\* C24 witness: the generators have run while a tenant without a row has an
\* incomplete assignment inside the lookahead, and while a tenant who
\* switched smart reminders off has a live DEADLINE reminder whose assignment
\* is still inside the lookahead.
C24_Witness ==
    /\ phase = "dispatch"
    /\ \E t \in Tenants :
          /\ ~preferenceRows[t].exists
          /\ \E k \in DOMAIN Assignments :
                Assignments[k].supabaseId = t /\ deadlineQuery(Assignments[k], now)
    /\ \E t \in Tenants :
          /\ preferenceRows[t].exists /\ ~preferenceRows[t].smartRemindersEnabled
          /\ \E i \in DOMAIN reminders, k \in DOMAIN Assignments :
                /\ reminders[i].supabaseId = t
                /\ isLive(reminders[i])
                /\ reminders[i].foreignId = ForeignId(Assignments[k].id, NoDate)
                /\ deadlineQuery(Assignments[k], now)

\* the target date of the inactivity generator for a tenant at time n
inactivityTarget(t, n) ==
    LET user == CHOOSE u \in {Users[k] : k \in DOMAIN Users} : u.supabaseId = t
    IN  computeInactivitySchedule(calculatePreferredHour(analytics, t), user.lastLoginAt,
                                  ReminderPreferences[t], n)

liveInactivity(rs, t) ==
    {i \in DOMAIN rs : rs[i].type = "INACTIVITY" /\ rs[i].supabaseId = t /\ isLive(rs[i])}

\* C25 (first part): an INACTIVITY reminder a generator step creates or
\* reschedules has scheduledFor equal to the tenant's target date, which is
\* not earlier than the time of the tick, and the tenant id as foreignId.
C25_ScheduledAtTarget ==
    [][ticks' # ticks =>
         \A i \in DOMAIN reminders' :
            (/\ reminders'[i].type = "INACTIVITY"
             /\ (i \in DOMAIN reminders => reminders'[i] # reminders[i])) =>
               /\ reminders'[i].scheduledFor = inactivityTarget(reminders'[i].supabaseId, now')
               /\ reminders'[i].scheduledFor >= now'
               /\ reminders'[i].foreignId = ForeignId(reminders'[i].supabaseId, NoDate)]_vars

\* C25: the inactivity generator creates or reschedules an INACTIVITY
\* reminder only at the tenant's target date (last login plus the
\* inactivity threshold, at the preferred hour), when that is not earlier
\* than now, with the tenant id as foreignId; and a tenant never has more
\* than one live INACTIVITY reminder.
C25_OneLiveInactivity ==
    [][/\ ticks' # ticks =>
            \A i \in DOMAIN reminders' :
               (/\ reminders'[i].type = "INACTIVITY"
                /\ (i \in DOMAIN reminders => reminders'[i] # reminders[i])) =>
                  /\ reminders'[i].scheduledFor = inactivityTarget(reminders'[i].supabaseId, now')
                  /\ reminders'[i].scheduledFor >= now'
                  /\ reminders'[i].foreignId = ForeignId(reminders'[i].supabaseId, NoDate)
       /\ \A t \in Tenants : Cardinality(liveInactivity(reminders', t)) <= 1]_vars

\* the DEADLINE reminders of an assignment
deadlineRemindersOf(a) ==
    {i \in DOMAIN reminders :
        reminders[i].type = "DEADLINE" /\ reminders[i].foreignId = ForeignId(a.id, NoDate)}

sentBy(r, t) ==
    \E k \in DOMAIN r.interactions :
       r.interactions[k].action = "sent" /\ r.interactions[k].actedAt <= t

\* C26: with a tick every 5 minutes, the DEADLINE reminder of an incomplete
\* assignment inside the lookahead, of a tenant with smart reminders
\* enabled and a push subscription, is sent at a tick no later than the
\* assignment's due date: once a tick after the due date has ended, the
\* reminder has a `sent` entry from before the due date.
C26_SentBeforeDue ==
    \A k \in DOMAIN Assignments :
       LET a == Assignments[k]
       IN  (/\ phase = "idle"
            /\ now > a.dueDate
            /\ a.supabaseId \in fetchPreferencesMap
            /\ subscriptionsOf(subscriptions, a.supabaseId) # {}
            /\ deadlineRemindersOf(a) # {}) =>
              \E i \in deadlineRemindersOf(a) : sentBy(reminders[i], a.dueDate)

\* C27: a reminder snoozed until T keeps scheduledFor = T through every
\* step of every later tick for as long as it is snoozed, that is until the
\* dispatcher sends it: the generators' dedup/upsert does not overwrite the
\* scheduledFor of a snoozed reminder.
C27_SnoozeTimeKept ==
    [][tickStep =>
         \A i \in DOMAIN reminders :
            (/\ reminders[i].status = "snoozed"
             /\ reminders[i].scheduledFor = reminders[i].snoozedUntil
             /\ reminders'[i].status = "snoozed") =>
               reminders'[i].scheduledFor = reminders[i].snoozedUntil]_vars

sentEntries(r) ==
    Cardinality({k \in DOMAIN r.interactions : r.interactions[k].action = "sent"})

snoozeEntries(r) ==
    Cardinality({k \in DOMAIN r.interactions :
                    /\ r.interactions[k].action = "snoozed"
                    /\ r.interactions[k].snoozedUntil # NoDate})

\* C28: with one scheduler instance the dispatcher never handles a reminder
\* whose status is sent (a snooze must have come in between), and the
\* number of `sent` entries of a reminder is at most 1 + the number of its
\* `snoozed` entries with a snoozedUntil.
C28_SentOncePerScheduling ==
    [][/\ phase = "dispatch" =>
            \A i \in DOMAIN reminders :
               reminders'[i] # reminders[i] => reminders[i].status # "sent"
       /\ \A i \in DOMAIN reminders' :
             sentEntries(reminders'[i]) <= 1 + snoozeEntries(reminders'[i])]_vars

\* C28 witness: a reminder was sent, snoozed, and sent a second time.
C28_Witness ==
    \E i \in DOMAIN reminders :
       /\ sentEntries(reminders[i]) = 2
       /\ snoozeEntries(reminders[i]) = 1
       /\ reminders[i].status = "sent"

\* the _ids and the lengths of `interactions` that occur within the bounds
ReminderIds == 1 .. (3 + MaxTicks)
EntryCounts == 0 .. (MaxRequests + MaxTicks)

\* reminder i is sent, has len interaction entries, and a tick is still to come
sentWith(i, len) ==
    /\ i \in DOMAIN reminders
    /\ reminders[i].status = "sent"
    /\ Len(reminders[i].interactions) = len
    /\ phase = "idle"
    /\ ticks < MaxTicks

SentInactivityStaysAhead ==
    phase \in {"dispatch", "cleanup"} =>
       \A t \in fetchPreferencesMap :
          \A i \in liveInactivity(reminders, t) :
             (reminders[i].status = "sent" /\ i = MinOf(liveInactivity(reminders, t))) =>
                reminders[i].scheduledFor >= now + 48 * 60

\* C30: when a client records dismissed or completed on a reminder while
\* the dispatcher is processing it (after the dispatcher read its batch,
\* before it saved), then after the dispatcher's save the status is the
\* terminal one the client set and the client's entry is in the list.
C30_ClientUpdateSurvives ==
    (/\ phase = "cleanup"
     /\ response.op = "interaction"
     /\ response.code = 204
     /\ response.action \in {"dismissed", "completed"}
     /\ response.id \in batch) =>
       /\ reminders[response.id].status = response.action
       /\ \E k \in DOMAIN reminders[response.id].interactions :
             reminders[response.id].interactions[k].action = response.action

====
